---- MODULE Spec2Model ----
(***************************************************************************)
(* Model of claude/extract-mcp.js (the Extractor, lines 76-210) and        *)
(* claude/restore-mcp.js (the Restorer), specification Spec, and of        *)
(* claude/hooks/guard-production.sh, specification GuardSpec.              *)
(*                                                                         *)
(* Strings are sequences of tokens.  A token is an indivisible run of      *)
(* characters ("/home/alice", "/code", "sk_live_A", "${HOME}", "npx"), so  *)
(* that split/join and the regular expressions act on token boundaries.    *)
(* A JSON object is a sequence of [k, v] pairs in insertion order, which   *)
(* is the order JSON.stringify writes and Object.entries enumerates.       *)
(* A JSON text is the parsed document with its strings in document order;  *)
(* a whole-document substitution rewrites every project key and every      *)
(* string value (server names and env keys hold no token that a            *)
(* substitution matches).  An absent object field and an empty object are  *)
(* both <<>> (the code reads them through "|| {}").                        *)
(***************************************************************************)
EXTENDS Integers, Sequences, FiniteSets, TLC

\* ---------------------------------------------------------------- bounds
MaxRuns == 2

\* ------------------------------------------------------------ constants
HOME == <<"/home/alice">>

Candidates == <<"/code", "/repos", "/projects", "/src">>

\* the value of machineConfig.codeDir when the field is missing
Undefined == <<"<undefined>">>

SECRET_PATTERNS ==
  << "STRIPE_TEST_API_KEY", "STRIPE_LIVE_API_KEY",
     "STRIPE_TEST_RESTRICTED_KEY", "STRIPE_LIVE_RESTRICTED_KEY",
     "STRIPE_WEBHOOK_SECRET", "SLACK_XOXC_TOKEN", "SLACK_XOXD_TOKEN",
     "JIRA_API_TOKEN" >>

SECRET_ENV_KEYS ==
  { "JIRA_API_TOKEN", "JIRA_USERNAME", "LANGFUSE_SECRET_KEY",
    "LANGFUSE_PUBLIC_KEY", "TWILIO_AUTH_TOKEN", "TWILIO_ACCOUNT_SID" }

\* the tokens each regular expression matches (whole tokens); "xoxc-A-" is
\* the part of a longer match that is left when its tail has gone
PatternMatches(name) ==
  CASE name = "STRIPE_TEST_API_KEY"        -> {"sk_test_A"}
    [] name = "STRIPE_LIVE_API_KEY"        -> {"sk_live_A", "sk_live_B"}
    [] name = "STRIPE_TEST_RESTRICTED_KEY" -> {"rk_test_A"}
    [] name = "STRIPE_LIVE_RESTRICTED_KEY" -> {"rk_live_A"}
    [] name = "STRIPE_WEBHOOK_SECRET"      -> {"whsec_A"}
    [] name = "SLACK_XOXC_TOKEN"           -> {"xoxc-A", "xoxc-A-"}
    [] name = "SLACK_XOXD_TOKEN"           -> {"xoxd-A"}
    [] name = "JIRA_API_TOKEN"             -> {"ATATT3xA"}
    [] OTHER                               -> {}

\* the matches that run over several tokens: /xoxc-[A-Za-z0-9-]+/ reads on
\* through "-" into a token that /xoxd-[A-Za-z0-9%+-]+/ matches on its own
PatternRuns(name) ==
  CASE name = "SLACK_XOXC_TOKEN" -> { <<"xoxc-A-", "xoxd-A">> }
    [] OTHER                     -> {}

\* "${" + name + "}"
Placeholder(name) == "${" \o name \o "}"

\* the tokens that begin with "${"
PlaceholderTokens ==
  {"${CODE_DIR}", "${HOME}"}
    \cup {Placeholder(SECRET_PATTERNS[i]) : i \in 1..Len(SECRET_PATTERNS)}
    \cup {Placeholder(k) : k \in SECRET_ENV_KEYS}
    \cup {"${UNKNOWN}"}

\* ------------------------------------------------------- string helpers
\* value.startsWith("${")
StartsWithPlaceholder(s) == Len(s) > 0 /\ s[1] \in PlaceholderTokens

IsPrefixAt(sep, s, i) ==
  /\ i + Len(sep) - 1 <= Len(s)
  /\ \A j \in 1..Len(sep) : s[i + j - 1] = sep[j]

\* s.split(sep).join(rep), sep a non-empty string
RECURSIVE SplitJoinFrom(_, _, _, _)
SplitJoinFrom(s, sep, rep, i) ==
  IF i > Len(s) THEN <<>>
  ELSE IF IsPrefixAt(sep, s, i)
       THEN rep \o SplitJoinFrom(s, sep, rep, i + Len(sep))
       ELSE <<s[i]>> \o SplitJoinFrom(s, sep, rep, i + 1)

SplitJoin(s, sep, rep) == SplitJoinFrom(s, sep, rep, 1)

\* str.replace(/token/g, rep) for a one-token pattern set
RECURSIVE ReplaceTokens(_, _, _)
ReplaceTokens(s, toks, rep) ==
  IF s = <<>> THEN <<>>
  ELSE (IF Head(s) \in toks THEN rep ELSE <<Head(s)>>)
         \o ReplaceTokens(Tail(s), toks, rep)

\* the match of a pattern that begins at position i of s, the longest one
\* as the + of the regular expressions is greedy; <<>> when there is none
MatchAt(name, s, i) ==
  LET runs == {r \in PatternRuns(name) : IsPrefixAt(r, s, i)}
  IN  IF runs # {}
      THEN CHOOSE r \in runs : \A r2 \in runs : Len(r2) <= Len(r)
      ELSE IF s[i] \in PatternMatches(name) THEN <<s[i]>> ELSE <<>>

\* s.match(pattern) with the g flag: the matches from the left, not overlapping
RECURSIVE MatchesFrom(_, _, _)
MatchesFrom(name, s, i) ==
  IF i > Len(s) THEN <<>>
  ELSE LET m == MatchAt(name, s, i)
       IN  IF m = <<>> THEN MatchesFrom(name, s, i + 1)
           ELSE <<m>> \o MatchesFrom(name, s, i + Len(m))

\* s.replace(pattern, rep) with the g flag
RECURSIVE ReplaceMatchesFrom(_, _, _, _)
ReplaceMatchesFrom(name, s, rep, i) ==
  IF i > Len(s) THEN <<>>
  ELSE LET m == MatchAt(name, s, i)
       IN  IF m = <<>> THEN <<s[i]>> \o ReplaceMatchesFrom(name, s, rep, i + 1)
           ELSE rep \o ReplaceMatchesFrom(name, s, rep, i + Len(m))

ReplaceMatches(name, s, rep) == ReplaceMatchesFrom(name, s, rep, 1)

\* ------------------------------------------------------- object helpers
Keys(m) == {m[i].k : i \in 1..Len(m)}

Has(m, key) == key \in Keys(m)

Get(m, key) == m[CHOOSE i \in 1..Len(m) : m[i].k = key].v

\* m[key] = val on an object: in place when the key exists, else appended
Put(m, key, val) ==
  IF Has(m, key)
  THEN [i \in 1..Len(m) |-> IF m[i].k = key THEN [k |-> key, v |-> val] ELSE m[i]]
  ELSE Append(m, [k |-> key, v |-> val])

\* a merge that appends the incoming entries instead of assigning them
Spread_Append(a, b) == a \o b

\* { ...a, ...b }
RECURSIVE Spread(_, _)
Spread(a, b) ==
  IF b = <<>> THEN a ELSE Spread(Put(a, b[1].k, b[1].v), Tail(b))

\* JSON.parse of an object text: a repeated key keeps its first position
\* and its last value
ParseObject(pairs) == Spread(<<>>, pairs)

\* an object as a function, for comparisons modulo key ordering
AsFunction(m) == [key \in Keys(m) |-> Get(m, key)]

\* ----------------------------------------------------- document helpers
\* A server definition is [command, env]; a server mapping is an object
\* name -> definition; the snapshot document is [global, projects] with
\* projects an object path -> server mapping.

RECURSIVE ConcatAll(_)
ConcatAll(ss) == IF ss = <<>> THEN <<>> ELSE Head(ss) \o ConcatAll(Tail(ss))

\* the env entries of a server mapping, in walk order
ServersEnvEntries(servers) ==
  ConcatAll([i \in 1..Len(servers) |-> servers[i].v.env])

\* the env entries of the whole document, in walk order
DocEnvEntries(doc) ==
  ServersEnvEntries(doc.global)
    \o ConcatAll([i \in 1..Len(doc.projects) |-> ServersEnvEntries(doc.projects[i].v)])

\* the strings of a server mapping, in document order
ServersStrings(servers) ==
  ConcatAll([i \in 1..Len(servers) |->
    <<servers[i].v.command>>
      \o [j \in 1..Len(servers[i].v.env) |-> servers[i].v.env[j].v]])

\* the strings of the document text, in document order
DocStrings(doc) ==
  ServersStrings(doc.global)
    \o ConcatAll([i \in 1..Len(doc.projects) |->
         <<doc.projects[i].k>> \o ServersStrings(doc.projects[i].v)])

\* the document text as one run of tokens
DocTokens(doc) == ConcatAll(DocStrings(doc))

\* the two substitutions in the other order: HOME first
abstractPaths_HomeFirst(str, codeDir) ==
  LET s1 == SplitJoin(str, HOME, <<"${HOME}">>)
  IN  IF codeDir = Undefined THEN s1
      ELSE SplitJoin(s1, codeDir, <<"${CODE_DIR}">>)

\* abstractPaths: codeDir first, then HOME; split(undefined) is [str]
abstractPaths(str, codeDir) ==
  LET s1 == IF codeDir = Undefined THEN str
            ELSE SplitJoin(str, codeDir, <<"${CODE_DIR}">>)
  IN  SplitJoin(s1, HOME, <<"${HOME}">>)

\* the path substitution: ${CODE_DIR} first, then ${HOME};
\* join(undefined) joins with ","
substitutePaths(str, codeDir) ==
  LET s1 == SplitJoin(str, <<"${CODE_DIR}">>,
                      IF codeDir = Undefined THEN <<",">> ELSE codeDir)
  IN  SplitJoin(s1, <<"${HOME}">>, HOME)

\* one whole-text substitution of the scripts, applied to a string
Substitute(sub, str) ==
  CASE sub.op = "abstractPaths" -> abstractPaths(str, sub.codeDir)
    [] sub.op = "substitutePaths" -> substitutePaths(str, sub.codeDir)
    [] sub.op = "replace" -> ReplaceTokens(str, sub.tokens, sub.by)
    [] sub.op = "replacePattern" -> ReplaceMatches(sub.name, str, sub.by)

\* a whole-text substitution applied to the strings of a server mapping
MapServers(sub, servers) ==
  [i \in 1..Len(servers) |->
    [k |-> servers[i].k,
     v |-> [command |-> Substitute(sub, servers[i].v.command),
            env |-> [j \in 1..Len(servers[i].v.env) |->
                      [k |-> servers[i].v.env[j].k,
                       v |-> Substitute(sub, servers[i].v.env[j].v)]]]]]

\* a whole-text substitution applied to the document text
MapDoc(sub, doc) ==
  [global |-> MapServers(sub, doc.global),
   projects |-> [i \in 1..Len(doc.projects) |->
                  [k |-> Substitute(sub, doc.projects[i].k),
                   v |-> MapServers(sub, doc.projects[i].v)]]]

\* ---------------------------------------------------------- Extractor
\* the condition of the walk's if statement
IsEnvSecret(entry) ==
  /\ entry.k \in SECRET_ENV_KEYS
  /\ entry.v # <<>>
  /\ ~StartsWithPlaceholder(entry.v)

EnvSecretsOf(doc) == Spread(<<>>, SelectSeq(DocEnvEntries(doc), IsEnvSecret))

ReplaceEnvSecrets(servers) ==
  [i \in 1..Len(servers) |->
    [k |-> servers[i].k,
     v |-> [command |-> servers[i].v.command,
            env |-> [j \in 1..Len(servers[i].v.env) |->
                      IF IsEnvSecret(servers[i].v.env[j])
                      THEN [k |-> servers[i].v.env[j].k,
                            v |-> <<Placeholder(servers[i].v.env[j].k)>>]
                      ELSE servers[i].v.env[j]]]]]

\* extractEnvSecrets: the secrets it returns and the document it leaves
extractEnvSecrets(doc) ==
  [secrets |-> EnvSecretsOf(doc),
   doc |-> [global |-> ReplaceEnvSecrets(doc.global),
            projects |-> [i \in 1..Len(doc.projects) |->
                           [k |-> doc.projects[i].k,
                            v |-> ReplaceEnvSecrets(doc.projects[i].v)]]]]

\* str.match(pattern): the matches in document order; a match lies within
\* one string of the text
Matches(name, strings) ==
  ConcatAll([j \in 1..Len(strings) |-> MatchesFrom(name, strings[j], 1)])

\* the loop going through the pattern table from its last row to its first
RECURSIVE extractSecretsFrom_ReverseOrder(_, _, _)
extractSecretsFrom_ReverseOrder(i, doc, secrets) ==
  IF i > Len(SECRET_PATTERNS) THEN [sanitized |-> doc, secrets |-> secrets]
  ELSE LET name == SECRET_PATTERNS[Len(SECRET_PATTERNS) + 1 - i]
           matches == Matches(name, DocStrings(doc))
           repl == [op |-> "replacePattern", name |-> name,
                    by |-> <<Placeholder(name)>>]
       IN  IF Len(matches) > 0
           THEN extractSecretsFrom_ReverseOrder(i + 1, MapDoc(repl, doc),
                                                Put(secrets, name, matches[1]))
           ELSE extractSecretsFrom_ReverseOrder(i + 1, doc, secrets)

\* extractSecrets: the patterns from index i on, over the text left so far
RECURSIVE extractSecretsFrom(_, _, _)
extractSecretsFrom(i, doc, secrets) ==
  IF i > Len(SECRET_PATTERNS) THEN [sanitized |-> doc, secrets |-> secrets]
  ELSE LET name == SECRET_PATTERNS[i]
           matches == Matches(name, DocStrings(doc))
           repl == [op |-> "replacePattern", name |-> name,
                    by |-> <<Placeholder(name)>>]
       IN  IF Len(matches) > 0
           THEN extractSecretsFrom(i + 1, MapDoc(repl, doc),
                                   Put(secrets, name, matches[1]))
           ELSE extractSecretsFrom(i + 1, doc, secrets)

extractSecrets(doc) == extractSecretsFrom(1, doc, <<>>)

\* the project loop that builds allMcp from the live configuration
CollectProjects(projects) ==
  LET kept == SelectSeq(projects,
                LAMBDA p : p.k # <<"*">> /\ Len(p.v.mcpServers) > 0)
  IN  [i \in 1..Len(kept) |-> [k |-> kept[i].k, v |-> kept[i].v.mcpServers]]

allMcpOf(config) ==
  [global |-> config.mcpServers, projects |-> CollectProjects(config.projects)]

\* the process section: what is written as the snapshot, and the secrets
Process(config, codeDir) ==
  LET env == extractEnvSecrets(allMcpOf(config))
      abs == [op |-> "abstractPaths", codeDir |-> codeDir]
      pat == extractSecrets(MapDoc(abs, env.doc))
  IN  [sanitized |-> pat.sanitized,
       secrets |-> Spread(env.secrets, pat.secrets)]

\* ----------------------------------------------------------- Restorer
\* the secrets loop: one global replace per entry of the store, in order
RECURSIVE substituteSecrets(_, _)
substituteSecrets(doc, secrets) ==
  IF secrets = <<>> THEN doc
  ELSE LET key == Head(secrets).k
           value == Head(secrets).v
           repl == [op |-> "replace", tokens |-> {Placeholder(key)},
                    by |-> value]
       IN  substituteSecrets(MapDoc(repl, doc), Tail(secrets))

\* JSON.parse(backupStr)
parseBackup(doc) ==
  [global |-> ParseObject(doc.global), projects |-> ParseObject(doc.projects)]

\* the spread with its operands exchanged: existing entries win
restoreGlobal_ExistingWins(config, backup) ==
  IF Len(backup.global) > 0
  THEN [config EXCEPT !.mcpServers = Spread(backup.global, config.mcpServers)]
  ELSE config

\* restore global MCP servers
restoreGlobal(config, backup) ==
  IF Len(backup.global) > 0
  THEN [config EXCEPT !.mcpServers = Spread(config.mcpServers, backup.global)]
  ELSE config

\* config.projects[projPath] = {} for a project the configuration lacks
NewProject == [other |-> "absent", mcpServers |-> <<>>]

\* a loop body that assigns fresh settings instead of updating the existing
restoreProject_FreshSettings(config, projPath, mcpServers) ==
  [config EXCEPT !.projects =
     Put(config.projects, projPath,
         [NewProject EXCEPT !.mcpServers = mcpServers])]

\* the body of the project loop for a project whose directory exists
restoreProject(config, projPath, mcpServers) ==
  LET settings == IF Has(config.projects, projPath)
                  THEN Get(config.projects, projPath) ELSE NewProject
  IN  [config EXCEPT !.projects =
         Put(config.projects, projPath,
             [settings EXCEPT !.mcpServers = Spread(settings.mcpServers, mcpServers)])]

\* -------------------------------------------------------------- state
VARIABLES
  liveFile,     \* ~/.claude.json: [st, val], st in absent / corrupt / ok
  snapFile,     \* mcp-servers.json
  secretsFile,  \* mcp-secrets.json
  machineFile,  \* machine-config.json, val the codeDir field
  dirs,         \* the directories that exist on this machine
  pc,           \* position of the running script, "idle" between runs
  tool,         \* "extract" or "restore": the script that runs or last ran
  status,       \* "running", "ok", "exit1" (process.exit(1)), "throw"
  cause,        \* why a run was fatal
  codeDir,      \* let codeDir
  sanitized,    \* Extractor: the text to write as the snapshot
  secrets,      \* Extractor: const secrets
  backup,       \* Restorer: backupStr, then backup
  config,       \* Restorer: let config
  todo,         \* Restorer: entries of backup.projects still to visit
  projectCount, \* Restorer: let projectCount
  skipped,      \* Restorer: let skipped
  written,      \* the files this run has written so far
  out,          \* the kinds of messages this run has printed
  start,        \* the four files as they were when this run began
  hist,         \* one record per finished run
  hook          \* guard-production.sh: one invocation of the hook

vars == << liveFile, snapFile, secretsFile, machineFile, dirs, pc, tool,
           status, cause, codeDir, sanitized, secrets, backup, config, todo,
           projectCount, skipped, written, out, start, hist, hook >>

files == << liveFile, snapFile, secretsFile, machineFile >>

extractLocals == << sanitized, secrets >>

restoreLocals == << backup, config, todo, projectCount, skipped >>

\* let config = {}
EmptyConfig == [theme |-> "absent", mcpServers |-> <<>>, projects |-> <<>>]

EmptyDoc == [global |-> <<>>, projects |-> <<>>]

Ok(v) == [st |-> "ok", val |-> v]

FilesNow ==
  [live |-> liveFile, snap |-> snapFile, secrets |-> secretsFile,
   machine |-> machineFile]

\* candidates.find(d => fs.existsSync(d)); undefined when none exists
detectCodeDir(existing) ==
  LET found == {i \in 1..Len(Candidates) : HOME \o <<Candidates[i]>> \in existing}
  IN  IF found = {} THEN Undefined
      ELSE HOME \o <<Candidates[CHOOSE i \in found : \A j \in found : i <= j]>>

\* an uncaught exception or process.exit(1): the run is over
Fatal(why, st) ==
  /\ pc' = "end"
  /\ status' = st
  /\ cause' = why

\* --- Load machine config --- (the same code in both scripts)
LoadMachineConfig(next) ==
  /\ UNCHANGED << liveFile, snapFile, secretsFile, dirs, tool,
                  extractLocals, restoreLocals, start, hist, hook >>
  /\ CASE machineFile.st = "ok" ->
            /\ codeDir' = machineFile.val
            /\ pc' = next
            /\ UNCHANGED << machineFile, status, cause, written, out >>
       [] machineFile.st = "corrupt" ->
            /\ Fatal("ParseError", "throw")
            /\ UNCHANGED << machineFile, codeDir, written, out >>
       [] OTHER ->
            /\ codeDir' = detectCodeDir(dirs)
            /\ IF codeDir' = Undefined
               THEN /\ Fatal("ConfigurationError", "exit1")
                    /\ out' = out \cup {"ERROR: Could not detect code directory."}
                    /\ UNCHANGED << machineFile, written >>
               ELSE /\ machineFile' = Ok(codeDir')
                    /\ written' = written \cup {"machine"}
                    /\ out' = out \cup {"Auto-detected code directory"}
                    /\ pc' = next
                    /\ UNCHANGED << status, cause >>

\* a script is started; MaxRuns bounds the number of runs
Begin(which, first) ==
  /\ pc = "idle"
  /\ Len(hist) < MaxRuns
  /\ pc' = first
  /\ tool' = which
  /\ status' = "running"
  /\ cause' = "none"
  /\ codeDir' = Undefined
  /\ sanitized' = EmptyDoc
  /\ secrets' = <<>>
  /\ backup' = Ok(EmptyDoc)
  /\ config' = EmptyConfig
  /\ todo' = <<>>
  /\ projectCount' = 0
  /\ skipped' = 0
  /\ written' = {}
  /\ out' = {}
  /\ start' = FilesNow
  /\ UNCHANGED << files, dirs, hist, hook >>

\* the process has exited
Exit ==
  /\ pc = "end"
  /\ pc' = "idle"
  /\ hist' = Append(hist, [tool |-> tool, status |-> status, cause |-> cause,
                           codeDir |-> codeDir, written |-> written, out |-> out,
                           skipped |-> skipped, before |-> start, after |-> FilesNow])
  /\ UNCHANGED << files, dirs, tool, status, cause, codeDir, extractLocals,
                  restoreLocals, written, out, start, hook >>

\* ---------------------------------------------------- Extractor steps
StartExtract == Begin("extract", "e_machine")

E_LoadMachineConfig == pc = "e_machine" /\ LoadMachineConfig("e_read")

\* read .claude.json, collect allMcp, process
E_ReadConfig ==
  /\ pc = "e_read"
  /\ UNCHANGED << files, dirs, tool, codeDir, restoreLocals, written, out,
                  start, hist, hook >>
  /\ CASE liveFile.st = "absent" ->
            Fatal("ENOENT", "throw") /\ UNCHANGED extractLocals
       [] liveFile.st = "corrupt" ->
            Fatal("ParseError", "throw") /\ UNCHANGED extractLocals
       [] OTHER ->
            /\ sanitized' = Process(liveFile.val, codeDir).sanitized
            /\ secrets' = Process(liveFile.val, codeDir).secrets
            /\ pc' = "e_snapshot"
            /\ UNCHANGED << status, cause >>

\* the write aimed at configPath instead of outputPath
E_WriteSnapshot_ToConfigPath ==
  /\ pc = "e_snapshot"
  /\ liveFile' = Ok([EmptyConfig EXCEPT !.mcpServers = sanitized.global])
  /\ written' = written \cup {"live"}
  /\ out' = out \cup {"Exported MCP servers"}
  /\ pc' = "e_secrets"
  /\ UNCHANGED << snapFile, secretsFile, machineFile, dirs, tool, status,
                  cause, codeDir, extractLocals, restoreLocals, start, hist, hook >>

\* write portable config
E_WriteSnapshot ==
  /\ pc = "e_snapshot"
  /\ snapFile' = Ok(sanitized)
  /\ written' = written \cup {"snapshot"}
  /\ out' = out \cup {"Exported MCP servers"}
  /\ pc' = "e_secrets"
  /\ UNCHANGED << liveFile, secretsFile, machineFile, dirs, tool, status,
                  cause, codeDir, extractLocals, restoreLocals, start, hist, hook >>

\* a write of the newly found secrets alone, without the existing store
E_WriteSecrets_Overwrite ==
  /\ pc = "e_secrets"
  /\ UNCHANGED << liveFile, snapFile, machineFile, dirs, tool, codeDir,
                  extractLocals, restoreLocals, start, hist, hook >>
  /\ pc' = "end"
  /\ status' = "ok"
  /\ cause' = "none"
  /\ IF Len(secrets) > 0
     THEN /\ secretsFile' = Ok(secrets)
          /\ written' = written \cup {"secrets"}
          /\ out' = out \cup {"Secrets found", "Files"}
     ELSE /\ out' = out \cup {"Files"}
          /\ UNCHANGED << secretsFile, written >>

\* write/merge secrets
E_WriteSecrets ==
  /\ pc = "e_secrets"
  /\ UNCHANGED << liveFile, snapFile, machineFile, dirs, tool, codeDir,
                  extractLocals, restoreLocals, start, hist, hook >>
  /\ IF Len(secrets) > 0 /\ secretsFile.st = "corrupt"
     THEN Fatal("ParseError", "throw") /\ UNCHANGED << secretsFile, written, out >>
     ELSE /\ pc' = "end"
          /\ status' = "ok"
          /\ cause' = "none"
          /\ IF Len(secrets) > 0
             THEN /\ secretsFile' =
                       Ok(Spread(IF secretsFile.st = "ok" THEN secretsFile.val
                                 ELSE <<>>, secrets))
                  /\ written' = written \cup {"secrets"}
                  /\ out' = out \cup {"Secrets found", "Files"}
             ELSE /\ out' = out \cup {"Files"}
                  /\ UNCHANGED << secretsFile, written >>

\* ----------------------------------------------------- Restorer steps
StartRestore == Begin("restore", "r_machine")

R_LoadMachineConfig == pc = "r_machine" /\ LoadMachineConfig("r_backup")

\* read portable config, substitute machine-specific paths
R_ReadBackup ==
  /\ pc = "r_backup"
  /\ UNCHANGED << files, dirs, tool, codeDir, extractLocals, config, todo,
                  projectCount, skipped, written, start, hist, hook >>
  /\ out' = out \cup {"Machine config"}
  /\ IF snapFile.st = "absent"
     THEN Fatal("ENOENT", "throw") /\ UNCHANGED backup
     ELSE /\ backup' = [st |-> snapFile.st,
                        val |-> MapDoc([op |-> "substitutePaths",
                                        codeDir |-> codeDir], snapFile.val)]
          /\ pc' = "r_secrets"
          /\ UNCHANGED << status, cause >>

\* a secrets section that reads the store without the existsSync test
R_SubstituteSecrets_NoExistsCheck ==
  /\ pc = "r_secrets"
  /\ UNCHANGED << files, dirs, tool, codeDir, extractLocals, config, todo,
                  projectCount, skipped, written, start, hist, hook >>
  /\ CASE secretsFile.st = "corrupt" ->
            Fatal("ParseError", "throw") /\ UNCHANGED << backup, out >>
       [] secretsFile.st = "absent" ->
            Fatal("ENOENT", "throw") /\ UNCHANGED << backup, out >>
       [] OTHER ->
            /\ out' = out \cup {"Substituted secrets"}
            /\ IF backup.st = "corrupt"
               THEN Fatal("ParseError", "throw") /\ UNCHANGED backup
               ELSE /\ backup' =
                         Ok(parseBackup(substituteSecrets(backup.val, secretsFile.val)))
                    /\ pc' = "r_config"
                    /\ UNCHANGED << status, cause >>

\* substitute secrets, then JSON.parse(backupStr)
R_SubstituteSecrets ==
  /\ pc = "r_secrets"
  /\ UNCHANGED << files, dirs, tool, codeDir, extractLocals, config, todo,
                  projectCount, skipped, written, start, hist, hook >>
  /\ CASE secretsFile.st = "corrupt" ->
            Fatal("ParseError", "throw") /\ UNCHANGED << backup, out >>
       [] OTHER ->
            /\ out' = out \cup {IF secretsFile.st = "ok" THEN "Substituted secrets"
                                ELSE "WARNING: No mcp-secrets.json found"}
            /\ IF backup.st = "corrupt"
               THEN Fatal("ParseError", "throw") /\ UNCHANGED backup
               ELSE /\ backup' =
                         Ok(parseBackup(IF secretsFile.st = "ok"
                                        THEN substituteSecrets(backup.val, secretsFile.val)
                                        ELSE backup.val))
                    /\ pc' = "r_config"
                    /\ UNCHANGED << status, cause >>

\* read existing .claude.json, restore global MCP servers
R_ReadConfig ==
  /\ pc = "r_config"
  /\ UNCHANGED << files, dirs, tool, codeDir, extractLocals, backup,
                  projectCount, skipped, written, start, hist, hook >>
  /\ IF liveFile.st = "corrupt"
     THEN Fatal("ParseError", "throw") /\ UNCHANGED << config, todo, out >>
     ELSE /\ config' = restoreGlobal(IF liveFile.st = "ok" THEN liveFile.val
                                     ELSE EmptyConfig, backup.val)
          /\ out' = IF Len(backup.val.global) > 0
                    THEN out \cup {"Restored global MCP servers"} ELSE out
          /\ todo' = backup.val.projects
          /\ pc' = "r_projects"
          /\ UNCHANGED << status, cause >>

\* a loop iteration without the existsSync test
R_ProjectStep_NoExistsCheck ==
  /\ pc = "r_projects"
  /\ todo # <<>>
  /\ todo' = Tail(todo)
  /\ config' = restoreProject(config, Head(todo).k, Head(todo).v)
  /\ projectCount' = projectCount + 1
  /\ UNCHANGED << files, dirs, pc, tool, status, cause, codeDir,
                  extractLocals, backup, skipped, written, out, start, hist, hook >>

\* one iteration of the project loop
R_ProjectStep ==
  /\ pc = "r_projects"
  /\ todo # <<>>
  /\ todo' = Tail(todo)
  /\ IF Head(todo).k \notin dirs
     THEN /\ skipped' = skipped + 1
          /\ UNCHANGED << config, projectCount >>
     ELSE /\ config' = restoreProject(config, Head(todo).k, Head(todo).v)
          /\ projectCount' = projectCount + 1
          /\ UNCHANGED skipped
  /\ UNCHANGED << files, dirs, pc, tool, status, cause, codeDir,
                  extractLocals, backup, written, out, start, hist, hook >>

\* report the counts, write back
R_WriteBack ==
  /\ pc = "r_projects"
  /\ todo = <<>>
  /\ out' = out \cup {"Restored project configs", "Saved"}
              \cup (IF skipped > 0 THEN {"Skipped project(s)"} ELSE {})
  /\ liveFile' = Ok(config)
  /\ written' = written \cup {"live"}
  /\ pc' = "end"
  /\ status' = "ok"
  /\ cause' = "none"
  /\ UNCHANGED << snapFile, secretsFile, machineFile, dirs, tool, codeDir,
                  extractLocals, restoreLocals, start, hist, hook >>

\* ------------------------------------------------------------- inputs
CodePath == HOME \o <<"/code">>

ReposPath == HOME \o <<"/repos">>

ProjectPath == CodePath \o <<"/p1">>

GhostPath == CodePath \o <<"/ghost">>

Server(command, env) == [command |-> command, env |-> env]

Entry(key, val) == [k |-> key, v |-> val]

DirSets ==
  { {CodePath, ReposPath, ProjectPath},
    {ReposPath, ReposPath \o <<"/p1">>},
    {} }

MachineFiles ==
  { [st |-> "absent", val |-> Undefined],
    [st |-> "corrupt", val |-> Undefined],
    Ok(Undefined), Ok(CodePath), Ok(ReposPath) }

SecretsFiles ==
  { [st |-> "absent", val |-> <<>>],
    [st |-> "corrupt", val |-> <<>>],
    Ok(<<>>),
    Ok(<< Entry("STRIPE_LIVE_API_KEY", <<"sk_live_B">>),
          Entry("OLD_KEY", <<"old">>) >>) }

SnapFiles ==
  { [st |-> "absent", val |-> EmptyDoc],
    [st |-> "corrupt", val |-> EmptyDoc],
    Ok([global |-> << Entry("s1", Server(<<"${HOME}", "/.local", "/bin">>,
                        << Entry("KEY", <<"${STRIPE_LIVE_API_KEY}">>),
                           Entry("TOKEN", <<"${UNKNOWN}">>) >>)) >>,
        projects |-> << Entry(<<"${CODE_DIR}", "/p1">>,
                          << Entry("s3", Server(<<"${CODE_DIR}", "/p1", "/run.js">>, <<>>)) >>),
                        Entry(<<"${CODE_DIR}", "/ghost">>,
                          << Entry("s4", Server(<<"npx">>, <<>>)) >>) >>]) }

GlobalServers ==
  { <<>>,
    << Entry("s1", Server(<<"npx">>, << Entry("KEY", <<"sk_live_A">>) >>)) >>,
    << Entry("s1", Server(<<"npx">>, << Entry("KEY", <<"sk_live_A">>) >>)),
       Entry("s2", Server(<<"npx">>, << Entry("KEY", <<"sk_live_B">>) >>)) >>,
    << Entry("s1", Server(ProjectPath \o <<"/run.js">>,
                     << Entry("JIRA_API_TOKEN", <<"ATATT3xA">>),
                        Entry("JIRA_USERNAME", <<"alice">>) >>)),
       Entry("s2", Server(HOME \o <<"/.local", "/bin">>,
                     << Entry("DEBUG", <<"1">>) >>)) >>,
    << Entry("s1", Server(<<"node">>,
                     << Entry("LANGFUSE_SECRET_KEY", <<"lf_1">>) >>)) >>,
    << Entry("s1", Server(<<"npx">>,
                     << Entry("COOKIE", <<"xoxc-A-", "xoxd-A">>),
                        Entry("KEY", <<"sk_live_B">>) >>)),
       Entry("s2", Server(<<"npx">>, << Entry("KEY", <<"sk_live_A">>) >>)) >>,
    << Entry("s1", Server(<<"npx">>,
                     << Entry("JIRA_API_TOKEN", <<"${JIRA_API_TOKEN}">>),
                        Entry("TWILIO_AUTH_TOKEN", <<>>) >>)) >> }

ProjectSettings ==
  { <<>>,
    << Entry(<<"*">>, [other |-> "defaults",
                       mcpServers |-> << Entry("s0", Server(<<"npx">>, <<>>)) >>]),
       Entry(ProjectPath, [other |-> "tools",
                           mcpServers |-> << Entry("s3", Server(<<"node">>,
                              << Entry("LANGFUSE_SECRET_KEY", <<"lf_1">>) >>)),
                              Entry("s5", Server(<<"npx">>, <<>>)) >>]) >>,
    << Entry(GhostPath, [other |-> "tools",
                         mcpServers |-> << Entry("s4", Server(GhostPath \o <<"/run.js">>,
                              << Entry("LANGFUSE_SECRET_KEY", <<"lf_2">>) >>)) >>]),
       Entry(ProjectPath, [other |-> "tools", mcpServers |-> <<>>]) >> }

LiveFiles ==
  { [st |-> "absent", val |-> EmptyConfig],
    [st |-> "corrupt", val |-> EmptyConfig] }
  \cup { Ok([theme |-> "dark", mcpServers |-> g, projects |-> p]) :
           g \in GlobalServers, p \in ProjectSettings }

\* ------------------------------------------- guard-production.sh
\* Paths of the hook are sequences of components: "/a/b" is <<"a", "b">>.
PRODUCTION_DIR == <<"Users", "joshuamullet", "code", "homestead">>

WORKTREE_PARENT == <<"Users", "joshuamullet", ".worktrees", "homestead">>

\* component names of which the first is a proper string prefix of the second
ComponentPrefixes == { <<"homestead", "homestead-old">> }

\* [[ "$path" == "$dir"* ]]: the text of dir is a prefix of the text of path
StartsWithDir(path, dir) ==
  /\ Len(path) >= Len(dir)
  /\ \A i \in 1..(Len(dir) - 1) : path[i] = dir[i]
  /\ \/ path[Len(dir)] = dir[Len(dir)]
     \/ <<dir[Len(dir)], path[Len(dir)]>> \in ComponentPrefixes

Front(s) == SubSeq(s, 1, Len(s) - 1)

\* cd "$dir" && pwd, from the root: every directory on the way has to exist;
\* ok is FALSE when cd fails, and then pwd does not run
RECURSIVE CdPwd(_, _, _)
CdPwd(cur, rest, existing) ==
  IF rest = <<>> THEN [ok |-> TRUE, path |-> cur]
  ELSE IF Head(rest) = ".."
       THEN CdPwd(IF cur = <<>> THEN <<>> ELSE Front(cur), Tail(rest), existing)
       ELSE IF Append(cur, Head(rest)) \in existing
            THEN CdPwd(Append(cur, Head(rest)), Tail(rest), existing)
            ELSE [ok |-> FALSE, path |-> <<>>]

\* FILE_PATH=$(cd "$(dirname "$FILE_PATH")" 2>/dev/null && pwd)/$(basename "$FILE_PATH")
\* the assignment always succeeds, so the || echo branch never runs: when cd
\* fails the first substitution is empty and the result is "/" basename
Normalize(path, existing) ==
  LET there == CdPwd(<<>>, Front(path), existing)
  IN  IF there.ok THEN Append(there.path, path[Len(path)])
      ELSE << path[Len(path)] >>

\* tool_input.file_path as given: absolute or not, and its components
FilePath(abs, comps) == [abs |-> abs, comps |-> comps]

NoFilePath == FilePath(FALSE, <<>>)

\* the hook is not running
HookInput(cwd, tool_name, file_path) ==
  [cwd |-> cwd, tool_name |-> tool_name, file_path |-> file_path]

\* the hook is not running
HookOff ==
  [pc |-> "off", input |-> HookInput(<<>>, "", NoFilePath), dirs |-> {},
   CWD |-> <<>>, TOOL_NAME |-> "", FILE_PATH |-> NoFilePath, exit |-> -1]

Init ==
  /\ liveFile \in LiveFiles
  /\ snapFile \in SnapFiles
  /\ secretsFile \in SecretsFiles
  /\ machineFile \in MachineFiles
  /\ dirs \in DirSets
  /\ pc = "idle"
  /\ tool = "none"
  /\ status = "ok"
  /\ cause = "none"
  /\ codeDir = Undefined
  /\ sanitized = EmptyDoc
  /\ secrets = <<>>
  /\ backup = Ok(EmptyDoc)
  /\ config = EmptyConfig
  /\ todo = <<>>
  /\ projectCount = 0
  /\ skipped = 0
  /\ written = {}
  /\ out = {}
  /\ start = FilesNow
  /\ hist = <<>>
  /\ hook = HookOff

Next ==
  \/ StartExtract
  \/ E_LoadMachineConfig
  \/ E_ReadConfig
  \/ E_WriteSnapshot
  \/ E_WriteSecrets
  \/ StartRestore
  \/ R_LoadMachineConfig
  \/ R_ReadBackup
  \/ R_SubstituteSecrets
  \/ R_ReadConfig
  \/ R_ProjectStep
  \/ R_WriteBack
  \/ Exit

Spec == Init /\ [][Next]_vars

\* ------------------------------------------- guard-production.sh steps
scripts == << liveFile, snapFile, secretsFile, machineFile, dirs, pc, tool,
             status, cause, codeDir, sanitized, secrets, backup, config, todo,
             projectCount, skipped, written, out, start, hist >>

\* exit n
HookExit(n) == hook' = [hook EXCEPT !.pc = "done", !.exit = n]

\* if [[ "$TOOL_NAME" != "Edit" && "$TOOL_NAME" != "Write" ]]; then exit 0
H_ToolFilter ==
  /\ hook.pc = "filter"
  /\ IF hook.TOOL_NAME \notin {"Edit", "Write"}
     THEN HookExit(0)
     ELSE hook' = [hook EXCEPT !.pc = "empty"]
  /\ UNCHANGED scripts

\* if [[ -z "$FILE_PATH" ]]; then exit 0
H_EmptyPath ==
  /\ hook.pc = "empty"
  /\ IF hook.FILE_PATH.comps = <<>>
     THEN HookExit(0)
     ELSE hook' = [hook EXCEPT !.pc = "resolve"]
  /\ UNCHANGED scripts

\* if [[ "$FILE_PATH" != /* ]]; then FILE_PATH="$CWD/$FILE_PATH"
H_Resolve ==
  /\ hook.pc = "resolve"
  /\ hook' = [hook EXCEPT !.pc = "normalize",
                          !.FILE_PATH =
                             IF hook.FILE_PATH.abs THEN hook.FILE_PATH
                             ELSE FilePath(TRUE, hook.CWD \o hook.FILE_PATH.comps)]
  /\ UNCHANGED scripts

\* Normalize paths (resolve .. and such)
H_Normalize ==
  /\ hook.pc = "normalize"
  /\ hook' = [hook EXCEPT !.pc = "decide",
                          !.FILE_PATH =
                             FilePath(TRUE, Normalize(hook.FILE_PATH.comps, hook.dirs))]
  /\ UNCHANGED scripts

\* the two prefix checks, then exit 2 when both hold and exit 0 otherwise
H_Decide ==
  /\ hook.pc = "decide"
  /\ LET IS_IN_WORKTREE == StartsWithDir(hook.CWD, WORKTREE_PARENT)
         IS_EDITING_PRODUCTION == StartsWithDir(hook.FILE_PATH.comps, PRODUCTION_DIR)
     IN  IF IS_IN_WORKTREE /\ IS_EDITING_PRODUCTION THEN HookExit(2) ELSE HookExit(0)
  /\ UNCHANGED scripts

\* --- hook inputs ---
Prefixes(path) == { SubSeq(path, 1, n) : n \in 1..Len(path) }

UserDir == <<"Users", "joshuamullet">>

HookCwds ==
  { PRODUCTION_DIR,
    PRODUCTION_DIR \o <<"src">>,
    WORKTREE_PARENT \o <<"wt1">>,
    WORKTREE_PARENT \o <<"wt1", "src">>,
    UserDir \o <<".worktrees", "homestead-old", "wt9">>,
    UserDir \o <<"notes">> }

HookTools == { "Edit", "Write", "Read", "Bash" }

HookFilePaths ==
  { NoFilePath,
    FilePath(TRUE, PRODUCTION_DIR \o <<"src", "a.js">>),
    FilePath(TRUE, PRODUCTION_DIR \o <<"newdir", "file.txt">>),
    FilePath(TRUE, PRODUCTION_DIR \o <<"README.md">>),
    FilePath(TRUE, WORKTREE_PARENT \o <<"wt1", "src", "a.js">>),
    FilePath(TRUE, WORKTREE_PARENT \o <<"wt1", "..", "..", "..", "code", "homestead", "src", "a.js">>),
    FilePath(TRUE, UserDir \o <<"code", "homestead-old", "a.js">>),
    FilePath(FALSE, <<"src", "a.js">>),
    FilePath(FALSE, <<"..", "..", "..", "code", "homestead", "src", "a.js">>) }

\* the directories that exist when the hook runs
HookDirs ==
  Prefixes(PRODUCTION_DIR \o <<"src">>)
    \cup Prefixes(WORKTREE_PARENT \o <<"wt1", "src">>)
    \cup Prefixes(UserDir \o <<".worktrees", "homestead-old", "wt9">>)
    \cup Prefixes(UserDir \o <<"code", "homestead-old">>)
    \cup Prefixes(UserDir \o <<"notes">>)

HookDirSets == { HookDirs, HookDirs \cup { PRODUCTION_DIR \o <<"newdir">> } }

\* INPUT=$(cat) and the three jq calls; neither script is running
GuardInit ==
  /\ liveFile = [st |-> "absent", val |-> EmptyConfig]
  /\ snapFile = [st |-> "absent", val |-> EmptyDoc]
  /\ secretsFile = [st |-> "absent", val |-> <<>>]
  /\ machineFile = [st |-> "absent", val |-> Undefined]
  /\ dirs = {}
  /\ pc = "idle"
  /\ tool = "none"
  /\ status = "ok"
  /\ cause = "none"
  /\ codeDir = Undefined
  /\ sanitized = EmptyDoc
  /\ secrets = <<>>
  /\ backup = Ok(EmptyDoc)
  /\ config = EmptyConfig
  /\ todo = <<>>
  /\ projectCount = 0
  /\ skipped = 0
  /\ written = {}
  /\ out = {}
  /\ start = FilesNow
  /\ hist = <<>>
  /\ \E cwd \in HookCwds, tool_name \in HookTools, file_path \in HookFilePaths,
        existing \in HookDirSets :
        hook = [pc |-> "filter", input |-> HookInput(cwd, tool_name, file_path),
                dirs |-> existing, CWD |-> cwd, TOOL_NAME |-> tool_name,
                FILE_PATH |-> file_path, exit |-> -1]

GuardNext ==
  \/ H_ToolFilter
  \/ H_EmptyPath
  \/ H_Resolve
  \/ H_Normalize
  \/ H_Decide

GuardSpec == GuardInit /\ [][GuardNext]_vars

\* ------------------------------------------------------------- claims
\* the servers of a configuration, modulo key ordering
NormServers(servers) ==
  [name \in Keys(servers) |->
    [command |-> Get(servers, name).command,
     env |-> AsFunction(Get(servers, name).env)]]

ServersOfConfig(cfg) ==
  [global |-> NormServers(cfg.mcpServers),
   projects |-> [path \in Keys(cfg.projects) |->
                  NormServers(Get(cfg.projects, path).mcpServers)]]

\* run i was the Extractor and run i + 1 the Restorer, both to completion
ExtractThenRestore(i) ==
  /\ i + 1 <= Len(hist)
  /\ hist[i].tool = "extract" /\ hist[i].status = "ok"
  /\ hist[i + 1].tool = "restore" /\ hist[i + 1].status = "ok"

\* C1: extracting and then restoring on the same machine yields a live
\* configuration whose global and project servers equal the original's,
\* modulo key ordering.
C1_RoundTrip ==
  \A i \in 1..Len(hist) :
    ExtractThenRestore(i) =>
      ServersOfConfig(hist[i + 1].after.live.val)
        = ServersOfConfig(hist[i].before.live.val)

TokenSet(s) == {s[j] : j \in 1..Len(s)}

Occurs(sep, s) == \E i \in 1..Len(s) : IsPrefixAt(sep, s, i)

\* the non-overlapping occurrences of sep in s, counted from the left
RECURSIVE CountFrom(_, _, _)
CountFrom(sep, s, i) ==
  IF i > Len(s) THEN 0
  ELSE IF IsPrefixAt(sep, s, i) THEN 1 + CountFrom(sep, s, i + Len(sep))
       ELSE CountFrom(sep, s, i + 1)

Count(sep, s) == CountFrom(sep, s, 1)

\* the Extractor has finished a complete run
ExtractDone == tool = "extract" /\ pc = "end" /\ status = "ok"

\* the Restorer has finished a complete run
RestoreDone == tool = "restore" /\ pc = "end" /\ status = "ok"

\* the strings that match a known pattern in the collected server mappings
PatternStringsOf(cfg) ==
  {t \in TokenSet(DocTokens(allMcpOf(cfg))) :
     \E i \in 1..Len(SECRET_PATTERNS) : t \in PatternMatches(SECRET_PATTERNS[i])}

EntriesHolding(store, t) == {i \in 1..Len(store) : store[i].v = <<t>>}

\* C2: after an extraction, a string of the live configuration that matches
\* a known secret pattern does not occur in the snapshot, and exactly one
\* entry of the Secrets Store holds it.
C2_PlaceholderMasking ==
  ExtractDone =>
    \A t \in PatternStringsOf(start.live.val) :
      /\ t \notin TokenSet(DocTokens(snapFile.val))
      /\ secretsFile.st = "ok"
      /\ Cardinality(EntriesHolding(secretsFile.val, t)) = 1

\* codeDir is a proper subdirectory of HOME
UnderHome(dir) ==
  /\ dir # Undefined
  /\ Len(dir) > Len(HOME)
  /\ SubSeq(dir, 1, Len(HOME)) = HOME

\* the text handed to abstractPaths, string by string
AbstractedSource == DocStrings(extractEnvSecrets(allMcpOf(liveFile.val)).doc)

\* C3: when codeDir lies under HOME, every occurrence of codeDir in the
\* text becomes ${CODE_DIR} in the snapshot text: no string keeps an
\* occurrence of codeDir, and none holds ${HOME} followed by the rest of
\* codeDir.
C3_PathOrdering ==
  (tool = "extract" /\ pc \in {"e_snapshot", "e_secrets", "end"}
     /\ liveFile.st = "ok" /\ UnderHome(codeDir)) =>
    LET src == AbstractedSource
        san == DocStrings(sanitized)
        rest == SubSeq(codeDir, Len(HOME) + 1, Len(codeDir))
    IN  /\ Len(san) = Len(src)
        /\ \A i \in 1..Len(src) :
             /\ ~Occurs(codeDir, san[i])
             /\ ~Occurs(<<"${HOME}">> \o rest, san[i])
             /\ Count(<<"${CODE_DIR}">>, san[i])
                  = Count(codeDir, src[i]) + Count(<<"${CODE_DIR}">>, src[i])

C3_Witness ==
  /\ ExtractDone
  /\ codeDir = CodePath
  /\ \E i \in 1..Len(AbstractedSource) :
       /\ AbstractedSource[i] = ProjectPath \o <<"/run.js">>
       /\ DocStrings(snapFile.val)[i] = <<"${CODE_DIR}", "/p1", "/run.js">>

\* the live configuration the Restorer started from
LiveBefore == IF start.live.st = "ok" THEN start.live.val ELSE EmptyConfig

\* C4: the Restorer leaves every top-level field other than the server and
\* project mappings, and every project field other than its server mapping,
\* as it was in the pre-existing live configuration.
C4_NonDestructiveMerge ==
  (tool = "restore" /\ start.live.st = "ok") =>
    /\ liveFile.st = "ok"
    /\ liveFile.val.theme = start.live.val.theme
    /\ \A path \in Keys(start.live.val.projects) :
         /\ Has(liveFile.val.projects, path)
         /\ Get(liveFile.val.projects, path).other
              = Get(start.live.val.projects, path).other

C4_Witness ==
  /\ RestoreDone
  /\ start.live.st = "ok"
  /\ liveFile.val.theme = "dark"
  /\ liveFile.val.mcpServers # start.live.val.mcpServers
  /\ \E path \in Keys(start.live.val.projects) :
       /\ Get(start.live.val.projects, path).other = "tools"
       /\ Get(liveFile.val.projects, path).mcpServers
            # Get(start.live.val.projects, path).mcpServers

\* the snapshot's project paths that do not exist on this machine
MissingPaths == {path \in Keys(backup.val.projects) : path \notin dirs}

\* C5: a snapshot project path that does not exist on this machine gets no
\* entry in the live configuration, leaves an existing entry for it as it
\* was, and adds exactly one to the skipped count.
C5_SkipMissingDirectory ==
  RestoreDone =>
    /\ skipped = Cardinality(MissingPaths)
    /\ \A path \in MissingPaths :
         /\ Has(liveFile.val.projects, path) = Has(LiveBefore.projects, path)
         /\ Has(LiveBefore.projects, path) =>
              Get(liveFile.val.projects, path) = Get(LiveBefore.projects, path)

C5_Witness ==
  /\ RestoreDone
  /\ skipped >= 1
  /\ projectCount >= 1
  /\ \E path \in MissingPaths : Has(LiveBefore.projects, path)


\* runs i and i + 1 were both the Extractor, on the same live configuration
ExtractTwice(i) ==
  /\ i + 1 <= Len(hist)
  /\ hist[i].tool = "extract"
  /\ hist[i + 1].tool = "extract"
  /\ hist[i + 1].before.live = hist[i].before.live

\* C6: a second extraction of an unchanged live configuration writes the
\* same snapshot and leaves the Secrets Store as the first left it.
C6_ExtractorIdempotent ==
  \A i \in 1..Len(hist) :
    ExtractTwice(i) =>
      /\ hist[i + 1].after.snap = hist[i].after.snap
      /\ hist[i + 1].after.secrets = hist[i].after.secrets

C6_Witness ==
  /\ ExtractTwice(1)
  /\ hist[1].status = "ok"
  /\ hist[2].status = "ok"
  /\ hist[1].written = {"machine", "snapshot", "secrets"}
  /\ hist[2].written = {"snapshot", "secrets"}
  /\ hist[1].before.secrets.st = "ok"
  /\ hist[1].after.secrets # hist[1].before.secrets

\* C7 as stated: the Extractor never changes the live configuration, and it
\* writes no file but the snapshot and the Secrets Store.
C7_OnlySnapshotAndSecrets ==
  tool = "extract" =>
    /\ liveFile = start.live
    /\ machineFile = start.machine
    /\ written \subseteq {"snapshot", "secrets"}

\* C7 amended: the Extractor never changes the live configuration; it writes
\* the snapshot, the Secrets Store and, only when no Machine Config exists
\* and a code directory is detected, the Machine Config.
C7_ExtractorReadOnly ==
  tool = "extract" =>
    /\ liveFile = start.live
    /\ written \subseteq {"snapshot", "secrets", "machine"}
    /\ machineFile # start.machine =>
         /\ start.machine.st = "absent"
         /\ "machine" \in written
         /\ machineFile.st = "ok"
         /\ UnderHome(machineFile.val)

C7_Witness ==
  /\ ExtractDone
  /\ written = {"machine", "snapshot", "secrets"}
  /\ start.live.st = "ok"
  /\ snapFile # start.snap
  /\ secretsFile # start.secrets

\* C8: a run that aborts on an input file that is not valid JSON has
\* written no file.
C8_ParseErrorBeforeAnyWrite ==
  cause = "ParseError" =>
    /\ status = "throw"
    /\ written = {}
    /\ FilesNow = start

\* the messages that are warnings
Warnings == {"WARNING: No mcp-secrets.json found"}

\* the secret placeholders of the snapshot's global servers that the store
\* has no entry for
Unresolved(snap, store) ==
  {t \in TokenSet(ConcatAll(ServersStrings(snap.global))) :
     /\ t \in PlaceholderTokens \ {"${CODE_DIR}", "${HOME}"}
     /\ \A i \in 1..Len(store) : Placeholder(store[i].k) # t}

\* C9: when the Secrets Store exists but lacks an entry for a placeholder of
\* the snapshot, the Restorer completes, writes the placeholder verbatim
\* into the live configuration, and prints a warning.
C9_UnresolvedPlaceholderWarned ==
  (/\ tool = "restore" /\ pc = "end"
   /\ start.secrets.st = "ok" /\ start.snap.st = "ok"
   /\ start.live.st # "corrupt" /\ start.machine.st # "corrupt"
   /\ cause # "ConfigurationError"
   /\ Unresolved(start.snap.val, start.secrets.val) # {}) =>
    /\ status = "ok"
    /\ \A t \in Unresolved(start.snap.val, start.secrets.val) :
         t \in TokenSet(ConcatAll(ServersStrings(liveFile.val.mcpServers)))
    /\ out \cap Warnings # {}

\* the script is past the machine config section
PastResolution ==
  pc \in {"e_read", "e_snapshot", "e_secrets",
          "r_backup", "r_secrets", "r_config", "r_projects"}

\* dir is the first existing candidate under HOME
FirstExisting(dir) ==
  \E i \in 1..Len(Candidates) :
    /\ dir = HOME \o <<Candidates[i]>>
    /\ dir \in dirs
    /\ \A j \in 1..(i - 1) : HOME \o <<Candidates[j]>> \notin dirs

\* C10: codeDir is the value loaded from an existing Machine Config, else
\* the first existing candidate, persisted before the run continues; when
\* no candidate exists the run exits non-zero having written nothing; past
\* resolution codeDir is always defined.
C10_CodeDirResolution ==
  /\ PastResolution =>
       /\ start.machine.st = "ok" => codeDir = start.machine.val
       /\ start.machine.st = "absent" =>
            FirstExisting(codeDir) /\ machineFile = Ok(codeDir)
       /\ codeDir # Undefined
  /\ cause = "ConfigurationError" =>
       /\ status = "exit1"
       /\ written = {}
       /\ FilesNow = start
       /\ \A i \in 1..Len(Candidates) : HOME \o <<Candidates[i]>> \notin dirs

\* the Secrets Store the run started from, as a mapping
StoreBefore == IF start.secrets.st = "ok" THEN start.secrets.val ELSE <<>>

\* every key of the pre-existing store is still present, with its old value
\* unless this run found a value for it, and every key found in this run is
\* present with the value found; a run that finds nothing leaves the store
\* file as it was
MergedAdditively ==
  LET found == secrets
  IN  /\ found = <<>> => secretsFile = start.secrets
      /\ found # <<>> => secretsFile.st = "ok"
      /\ Keys(secretsFile.val) = Keys(StoreBefore) \cup Keys(found)
      /\ \A key \in Keys(found) :
           Get(secretsFile.val, key) = Get(found, key)
      /\ \A key \in Keys(StoreBefore) \ Keys(found) :
           Get(secretsFile.val, key) = Get(StoreBefore, key)

\* C11 as stated: after any Extractor run, every key of the pre-existing
\* store is still present, with its old value unless this run found a value
\* for it, and every key found in this run is present.
C11_AfterAnyRun ==
  (tool = "extract" /\ pc = "end") => MergedAdditively

\* C11, amended: the same after every Extractor run that started with a
\* Secrets Store file that was absent or a valid mapping.
C11_AdditiveSecretsMerge ==
  (tool = "extract" /\ pc = "end" /\ start.secrets.st # "corrupt") =>
    MergedAdditively

C11_Witness ==
  /\ ExtractDone
  /\ Has(StoreBefore, "OLD_KEY")
  /\ Has(StoreBefore, "STRIPE_LIVE_API_KEY")
  /\ Has(secrets, "STRIPE_LIVE_API_KEY")
  /\ Get(secrets, "STRIPE_LIVE_API_KEY") # Get(StoreBefore, "STRIPE_LIVE_API_KEY")
  /\ Get(secretsFile.val, "STRIPE_LIVE_API_KEY") = <<"sk_live_A">>
  /\ Get(secretsFile.val, "OLD_KEY") = <<"old">>

\* the Restorer ran with every input but the Secrets Store in order
RestoreInputsInOrder ==
  /\ tool = "restore" /\ pc = "end"
  /\ start.snap.st = "ok"
  /\ start.live.st # "corrupt"
  /\ start.machine.st # "corrupt"
  /\ cause # "ConfigurationError"

\* the servers of the snapshot after the path substitution alone
PathSubstituted(servers) ==
  MapServers([op |-> "substitutePaths", codeDir |-> codeDir], servers)

\* the secret placeholders in the strings of a server mapping
SecretPlaceholdersIn(servers) ==
  TokenSet(ConcatAll(ServersStrings(servers)))
    \cap (PlaceholderTokens \ {"${CODE_DIR}", "${HOME}"})

\* C12: without a Secrets Store file the Restorer warns, completes, and
\* writes a live configuration that holds the snapshot's servers with the
\* paths substituted and every secret placeholder left as it is.
C12_MissingStoreNonFatal ==
  (RestoreInputsInOrder /\ start.secrets.st = "absent") =>
    /\ status = "ok"
    /\ "WARNING: No mcp-secrets.json found" \in out
    /\ "live" \in written
    /\ liveFile.st = "ok"
    /\ \A name \in Keys(start.snap.val.global) :
         /\ Has(liveFile.val.mcpServers, name)
         /\ Get(liveFile.val.mcpServers, name)
              = Get(PathSubstituted(start.snap.val.global), name)
    /\ SecretPlaceholdersIn(start.snap.val.global)
         \subseteq SecretPlaceholdersIn(liveFile.val.mcpServers)

C12_Witness ==
  /\ RestoreDone
  /\ start.secrets.st = "absent"
  /\ "${STRIPE_LIVE_API_KEY}" \in SecretPlaceholdersIn(liveFile.val.mcpServers)
  /\ "${UNKNOWN}" \in SecretPlaceholdersIn(liveFile.val.mcpServers)
  /\ codeDir = CodePath
  /\ projectCount >= 1

\* --- C13 ---
\* path with its ".." components resolved
RECURSIVE Lexical(_, _)
Lexical(done, rest) ==
  IF rest = <<>> THEN done
  ELSE IF Head(rest) = ".."
       THEN Lexical(IF done = <<>> THEN <<>> ELSE Front(done), Tail(rest))
       ELSE Lexical(Append(done, Head(rest)), Tail(rest))

\* path lies inside the directory dir
Inside(path, dir) ==
  Len(path) > Len(dir) /\ SubSeq(path, 1, Len(dir)) = dir

\* the target file of a hook input: absolute, or resolved against cwd
TargetOf(input) ==
  Lexical(<<>>, IF input.file_path.abs THEN input.file_path.comps
                ELSE input.cwd \o input.file_path.comps)

HookDone == hook.pc = "done"

\* C13: when the hook has finished: (a) tool Edit or Write, working directory
\* inside the worktree parent and target file inside the production directory
\* give exit status 2; (b) a working directory that is the production directory
\* itself gives exit status 0; (c) every tool other than Edit and Write gives
\* exit status 0.
C13_ProductionGuard ==
  HookDone =>
    /\ ( /\ hook.input.tool_name \in {"Edit", "Write"}
         /\ Inside(hook.input.cwd, WORKTREE_PARENT)
         /\ hook.input.file_path.comps # <<>>
         /\ Inside(TargetOf(hook.input), PRODUCTION_DIR) ) => hook.exit = 2
    /\ hook.input.cwd = PRODUCTION_DIR => hook.exit = 0
    /\ hook.input.tool_name \notin {"Edit", "Write"} => hook.exit = 0

\* --- C14 ---
\* C14: after an extraction, for every env entry of the collected server
\* mappings: when its key is on the allow-list and its value is non-empty and
\* does not start with a placeholder, the snapshot holds ${KEY} at that
\* position and the Secrets Store maps KEY to the original value; every other
\* env entry is left as it was by the env step.
C14_EnvAllowList ==
  ExtractDone =>
    LET collected == allMcpOf(start.live.val)
        before == DocEnvEntries(collected)
        step == DocEnvEntries(extractEnvSecrets(collected).doc)
        after == DocEnvEntries(snapFile.val)
    IN  \A i \in 1..Len(before) :
          IF IsEnvSecret(before[i])
          THEN /\ after[i].v = << Placeholder(before[i].k) >>
               /\ secretsFile.st = "ok"
               /\ Has(secretsFile.val, before[i].k)
               /\ Get(secretsFile.val, before[i].k) = before[i].v
          ELSE step[i] = before[i]

\* --- C15 ---
\* the strings of the text that pattern extraction starts from: the collected
\* servers after the env step and the path abstraction of this run
PatternInput ==
  DocStrings(MapDoc([op |-> "abstractPaths", codeDir |-> codeDir],
                    extractEnvSecrets(allMcpOf(start.live.val)).doc))

\* the strings of the text as the first i patterns of the table leave it: a
\* pattern that matches puts its token in the place of each of its matches
RECURSIVE TextAfter(_)
TextAfter(i) ==
  IF i = 0 THEN PatternInput
  ELSE LET text == TextAfter(i - 1)
           name == SECRET_PATTERNS[i]
       IN  [j \in 1..Len(text) |->
              ReplaceMatches(name, text[j], << Placeholder(name) >>)]

\* the secrets of the env step of this run
EnvStepSecrets == extractEnvSecrets(allMcpOf(start.live.val)).secrets

\* C15: after an extraction, the snapshot is the text that the patterns, taken
\* in table order, each over the text left by the ones before it, leave when
\* every match is replaced by the pattern's ${NAME}; a pattern with a match in
\* the text left to it is recorded with the first of these matches; a pattern
\* without one leaves the text as it is and records nothing (its name is among
\* the secrets only as an env key, with the env value).
C15_PatternPolicy ==
  ExtractDone =>
    /\ DocStrings(snapFile.val) = TextAfter(Len(SECRET_PATTERNS))
    /\ \A i \in 1..Len(SECRET_PATTERNS) :
         LET name == SECRET_PATTERNS[i]
             found == Matches(name, TextAfter(i - 1))
         IN  IF found # <<>>
             THEN /\ Has(secrets, name)
                  /\ Get(secrets, name) = found[1]
                  /\ Matches(name, TextAfter(i)) = <<>>
             ELSE /\ TextAfter(i) = TextAfter(i - 1)
                  /\ Has(secrets, name) =>
                       /\ Has(EnvStepSecrets, name)
                       /\ Get(secrets, name) = Get(EnvStepSecrets, name)

\* a run over a text where an early pattern's match takes in what a later
\* pattern would have matched, and where one pattern has two different matches
C15_Witness ==
  /\ ExtractDone
  /\ Matches("SLACK_XOXD_TOKEN", PatternInput) # <<>>
  /\ Get(secrets, "SLACK_XOXC_TOKEN") = <<"xoxc-A-", "xoxd-A">>
  /\ ~Has(secrets, "SLACK_XOXD_TOKEN")
  /\ Matches("STRIPE_LIVE_API_KEY", PatternInput) = << <<"sk_live_B">>, <<"sk_live_A">> >>
  /\ Get(secrets, "STRIPE_LIVE_API_KEY") = <<"sk_live_B">>
  /\ Count(<<"${STRIPE_LIVE_API_KEY}">>, DocTokens(snapFile.val)) = 2

\* --- C16 ---
\* old overlaid with new, by name: new's definition where it has the name
Overlay(old, new) ==
  [name \in Keys(old) \cup Keys(new) |->
     IF Has(new, name) THEN Get(new, name) ELSE Get(old, name)]

\* the server mapping a project had in the live configuration before the run
ProjectServersBefore(projPath) ==
  IF Has(LiveBefore.projects, projPath)
  THEN Get(LiveBefore.projects, projPath).mcpServers ELSE <<>>

\* C16: after a restore, the global servers of the live configuration are the
\* pre-existing ones overlaid with the snapshot's (as substituted and parsed by
\* this run), and for every project path of the snapshot whose directory
\* exists, that project's servers are its pre-existing ones overlaid with the
\* snapshot's servers for it.
C16_MergeIncomingWins ==
  RestoreDone =>
    /\ AsFunction(liveFile.val.mcpServers)
         = Overlay(LiveBefore.mcpServers, backup.val.global)
    /\ \A i \in 1..Len(backup.val.projects) :
         LET projPath == backup.val.projects[i].k
         IN  projPath \in dirs =>
               /\ Has(liveFile.val.projects, projPath)
               /\ AsFunction(Get(liveFile.val.projects, projPath).mcpServers)
                    = Overlay(ProjectServersBefore(projPath), backup.val.projects[i].v)

\* a restore over a live configuration that has a server of the snapshot's
\* name with another definition and a server the snapshot lacks, globally
\* and in a project whose directory exists
C16_Witness ==
  /\ RestoreDone
  /\ Has(LiveBefore.mcpServers, "s1") /\ Has(backup.val.global, "s1")
  /\ Get(LiveBefore.mcpServers, "s1") # Get(backup.val.global, "s1")
  /\ Get(liveFile.val.mcpServers, "s1") = Get(backup.val.global, "s1")
  /\ Has(LiveBefore.mcpServers, "s2") /\ ~Has(backup.val.global, "s2")
  /\ Has(liveFile.val.mcpServers, "s2")
  /\ ProjectPath \in dirs
  /\ Has(backup.val.projects, ProjectPath)
  /\ Has(ProjectServersBefore(ProjectPath), "s3")
  /\ Get(ProjectServersBefore(ProjectPath), "s3")
       # Get(Get(backup.val.projects, ProjectPath), "s3")
  /\ Has(Get(liveFile.val.projects, ProjectPath).mcpServers, "s5")
  /\ ~Has(Get(backup.val.projects, ProjectPath), "s5")

\* --- C17 ---
\* the names a ${NAME} secret token can carry
SecretNames == {SECRET_PATTERNS[i] : i \in 1..Len(SECRET_PATTERNS)} \cup SECRET_ENV_KEYS

\* this run wrote the snapshot, and some string of it holds ${name} more often
\* than the string of the collected servers at the same position
IntroducedByRun(name) ==
  /\ "snapshot" \in written
  /\ LET source == DocStrings(allMcpOf(start.live.val))
         snapshot == DocStrings(snapFile.val)
     IN  \E j \in 1..Len(snapshot) :
           Count(<< Placeholder(name) >>, snapshot[j])
             > Count(<< Placeholder(name) >>, source[j])

\* C17: after any Extractor run, finished or aborted: for every ${NAME} token
\* the run put into the snapshot, the Secrets Store file has the key NAME.
C17_PlaceholderHasSecret ==
  (tool = "extract" /\ pc = "end") =>
    \A name \in SecretNames :
      IntroducedByRun(name) =>
        secretsFile.st = "ok" /\ Has(secretsFile.val, name)

====
